---- MODULE Spec2Model ----
(***************************************************************************)
(* A model of the circuit breaker of gagandeepahuja09/circuit-breaker:     *)
(* the HealthCounts actor (a rolling window of per-second buckets served   *)
(* by one goroutine over unbuffered channels) and the Breaker that wraps a *)
(* call, records its outcome in a background goroutine and moves between   *)
(* CloseState and OpenState by compare-and-swap.                           *)
(*                                                                         *)
(* Time is a counter of ticks, TicksPerSecond ticks to the second.  Every  *)
(* goroutine is a task with a program counter; a step of the model is one  *)
(* shared-memory access, one channel rendezvous or one step of the actor.  *)
(***************************************************************************)
EXTENDS Integers, Sequences, FiniteSets, TLC

\* ---------------------------------------------------------------- bounds
\* goroutines that call Breaker.Call
NCallers == 2
\* background goroutines (go b.fail() / go b.success()) alive at one time
MaxBg == 2
\* calls of Breaker.Call in one behaviour
MaxCalls == 3
\* the last tick of the clock
MaxTime == 2
\* the largest NumberOfSecondsToStore tried with the breaker
MaxBuckets == 1
\* the largest MinimumNumberOfRequest tried
MaxMin == 2
\* ticks of the clock to the second
Ticks == 1
\* under the fair specification: calls of Breaker.Call, last tick
LiveMaxCalls == 2
LiveMaxTime == 1
\* with the counter alone: calls of Success, Fail and Summary, last tick,
\* largest number of buckets, ticks to the second
HcMaxOps == 4
HcMaxTime == 6
HcMaxBuckets == 2
HcTicks == 2
\* construction: the largest NumberOfSecondsToStore tried (the smallest is
\* -1), and the calls of Summary after it
CtorMaxSeconds == 62
CtorMaxOps == 1
\* across the minute: the second at which the counter is made, the last
\* tick, the largest number of buckets, the calls of Success and Fail
WrapStart == 55
WrapMaxTime == 62
WrapMaxBuckets == 60
WrapMaxOps == 2

\* ------------------------------------------------------ program constants
CloseState == 0
OpenState == 1
\* the zero time.Time (IsZero)
Zero == -1
\* time.Time.Second() ranges over 0..59
SecondsPerMinute == 60
\* NewHealthCounts accepts 1..60 seconds
MaxSecondsToStore == 60
\* OptionsDefault()
DefaultErrorsPercentage == 50
DefaultMinimumNumberOfRequest == 20

\* values of Options.ErrorsPercentage tried
Thresholds == {DefaultErrorsPercentage}

Callers == 1..NCallers
BgSlots == (NCallers + 1)..(NCallers + MaxBg)
Tasks == Callers \cup BgSlots

VARIABLES
    now,          \* the clock, in ticks
    opt,          \* Breaker.options
    state,        \* Breaker.state
    values,       \* HealthCounts.values
    lastFailure,  \* HealthCounts.lastFailure
    lastSuccess,  \* HealthCounts.lastSuccess
    hcPc,         \* where HealthCounts.run is
    hcOut,        \* the summary run is sending on summaryOutChan
    cancelled,    \* hc.ctx is done
    proc,         \* the goroutines: callers of Call, and background goroutines
    lim,          \* the bounds of this behaviour: calls, last tick, ticks to the second
    hist          \* history: counts of calls, invocations, handoffs, swaps,
                  \* values read from b.changes, whose request run answers

vars == <<now, opt, state, values, lastFailure, lastSuccess,
          hcPc, hcOut, cancelled, proc, lim, hist>>

hcVars == <<values, lastFailure, lastSuccess>>

\* ------------------------------------------------------------ HealthCounts

\* hc.buckets
buckets == opt.NumberOfSecondsToStore

\* time.Second, in ticks
TicksPerSecond == lim.tps

\* hc.window, in ticks
window == opt.NumberOfSecondsToStore * TicksPerSecond

\* time.Time.Second()
Second(t) == (t \div TicksPerSecond) % SecondsPerMinute

IsZero(t) == t = Zero

EmptyBucket == [failures |-> 0, success |-> 0, lastWrite |-> Zero]

NoSummary == [Failures |-> 0, Success |-> 0, Total |-> 0, ErrorPercentage |-> 0,
              LastFailure |-> Zero, LastSuccess |-> Zero]

\* a NewHealthCounts that checks only numberOfSecondsToStore <= 0
NewHealthCountsNoUpperBound(n) ==
    IF n <= 0
    THEN [ok |-> FALSE, values |-> <<>>]
    ELSE [ok |-> TRUE, values |-> [i \in 0..(n - 1) |-> EmptyBucket]]

\* NewHealthCounts: nil and an error outside 1..60, else a counter with n
\* empty buckets
NewHealthCounts(n) ==
    IF n <= 0 \/ n > MaxSecondsToStore
    THEN [ok |-> FALSE, values |-> <<>>]
    ELSE [ok |-> TRUE, values |-> [i \in 0..(n - 1) |-> EmptyBucket]]

RECURSIVE SumOver(_, _, _)
SumOver(vals, idx, field) ==
    IF idx = {} THEN 0
    ELSE LET i == CHOOSE j \in idx : TRUE
         IN vals[i][field] + SumOver(vals, idx \ {i}, field)

\* the buckets doSummary counts: written, and not longer ago than the window
InWindow(vals, t) ==
    {i \in DOMAIN vals : ~IsZero(vals[i].lastWrite) /\ t - vals[i].lastWrite <= window}

\* float64(hs.Failures/hs.Total) * 100: the division is int64's
ErrorPercentageOf(f, total) ==
    IF total = 0 THEN 0 ELSE (f \div total) * 100

doSummary(vals, t, lf, ls) ==
    LET live == InWindow(vals, t)
        s == SumOver(vals, live, "success")
        f == SumOver(vals, live, "failures")
    IN [Failures |-> f, Success |-> s, Total |-> s + f,
        ErrorPercentage |-> ErrorPercentageOf(f, s + f),
        LastFailure |-> lf, LastSuccess |-> ls]

\* HealthCountsBucket.reset
reset(b) == [b EXCEPT !.failures = 0, !.success = 0]

\* hc.bucket(): the bucket of this second, reset when its last write is
\* older than the window, and stamped with the time of this write
bucketIndex(t) == Second(t) % buckets

bucket(vals, t) ==
    LET index == bucketIndex(t)
        old == vals[index]
        kept == IF ~IsZero(old.lastWrite) /\ t - old.lastWrite > window
                THEN reset(old) ELSE old
    IN [vals EXCEPT ![index] = [kept EXCEPT !.lastWrite = t]]

doSuccess(vals, t) ==
    LET v == bucket(vals, t)
    IN [v EXCEPT ![bucketIndex(t)].success = @ + 1]

\* a doFail that counts the failure as a success
doFailAsSuccess(vals, t) ==
    LET v == bucket(vals, t)
    IN [v EXCEPT ![bucketIndex(t)].success = @ + 1]

doFail(vals, t) ==
    LET v == bucket(vals, t)
    IN [v EXCEPT ![bucketIndex(t)].failures = @ + 1]

\* doFail as counters.go has it: hc.bucket().success++
doFailCounters(vals, t) ==
    LET v == bucket(vals, t)
    IN [v EXCEPT ![bucketIndex(t)].success = @ + 1]

\* a run that receives from its channels while it still has an answer to
\* send
runReceivesWhileAnswering == hcPc \in {"select", "reply"}

\* run receives from successChan, failuresChan, summaryChan and ctx.Done()
\* in its select, and nowhere else
runReceives == hcPc = "select"

\* a run that returns once it has sent a summary
runAfterSummaryReturns == "done"

\* run: after its send on summaryOutChan the for loop selects again
runAfterSummary == "select"

\* --------------------------------------------------------------- Breaker

\* checkState without its check of MinimumNumberOfRequest
checkStateNoMinimum(hs) ==
    IF hs.ErrorPercentage >= opt.ErrorsPercentage THEN OpenState ELSE CloseState

\* Breaker.checkState, on the summary it received
checkState(hs) ==
    IF hs.Total < opt.MinimumNumberOfRequest THEN CloseState
    ELSE IF hs.ErrorPercentage >= opt.ErrorsPercentage THEN OpenState
    ELSE CloseState

Idle == [pc |-> "idle", st |-> CloseState, ust |-> CloseState,
         target |-> CloseState, tot |-> 0, err |-> "nil", ret |-> "none",
         kind |-> "none"]

Free == [Idle EXCEPT !.pc = "free"]

\* the slot a new goroutine takes
FreeSlots == {b \in BgSlots : proc[b].pc = "free"}
NewSlot == CHOOSE b \in FreeSlots : \A c \in FreeSlots : b <= c

\* a Call that counts its rejection as a failure: go b.fail() before it
\* returns ErrBreakerOpen
CallAfterUpdateRecordsReject(p, r, res) ==
    IF res = OpenState
    THEN IF FreeSlots = {}
         THEN [proc EXCEPT ![p] = [r EXCEPT !.pc = "returned",
                                            !.ret = "ErrBreakerOpen"]]
         ELSE [proc EXCEPT ![p] = [r EXCEPT !.pc = "returned",
                                            !.ret = "ErrBreakerOpen"],
                           ![NewSlot] = [Free EXCEPT !.pc = "send", !.kind = "fail"]]
    ELSE [proc EXCEPT ![p] = [r EXCEPT !.pc = "fn"]]

\* Call, after the update() it ran because it loaded OpenState has returned
\* res: return ErrBreakerOpen when res is OpenState, else go on to fn().
\* r is the caller's record; the result is the goroutines after the step.
CallAfterUpdate(p, r, res) ==
    IF res = OpenState
    THEN [proc EXCEPT ![p] = [r EXCEPT !.pc = "returned", !.ret = "ErrBreakerOpen"]]
    ELSE [proc EXCEPT ![p] = [r EXCEPT !.pc = "fn"]]

\* update() returns res: a caller of Call goes on in Call, a background
\* goroutine (b.success, b.fail) ends
AfterUpdate(p, r, res) ==
    IF p \in Callers THEN CallAfterUpdate(p, r, res)
    ELSE [proc EXCEPT ![p] = Free]

\* update(): what it returns after its compare-and-swap (changed, or not)
casResult(r, changed) == IF changed THEN r.target ELSE r.ust

\* an update() that offers its newState on b.changes whether or not its
\* compare-and-swap succeeded
notifyByLoser(changed, reader) == reader

\* update(): a value goes to a reader of b.changes when the compare-and-swap
\* succeeded and a reader is waiting
notify(changed, reader) == changed /\ reader

\* update(): the value it offers on b.changes (newState)
changeValue(r) == r.target

\* a Call that re-evaluates the state before every admission
CallEnterAlwaysUpdates(r, s) == [r EXCEPT !.pc = "upd_load", !.st = s]

\* Call, having loaded s from b.state: update() first when it is OpenState,
\* straight on to fn() otherwise
CallEnter(r, s) ==
    IF s = OpenState
    THEN [r EXCEPT !.pc = "upd_load", !.st = s]
    ELSE [r EXCEPT !.pc = "fn", !.st = s]

\* a Call that starts b.success() whatever fn returned
spawnKindAlwaysSuccess(e) == "success"

\* Call: the goroutine it starts for fn's error e (go b.fail(), go b.success())
spawnKind(e) == IF e = "err" THEN "fail" ELSE "success"

\* Call: what it returns after fn returned e
callResult(e) == e

\* the time of the first write to the counter (history)
firstWrite(t0, t) == IF IsZero(t0) THEN t ELSE t0

\* the goroutines inside update(), or between their Success()/Fail() and it
InUpdate == {"upd_load", "sum_send", "sum_recv", "upd_cas"}
OthersInUpdate(p) == \E q \in Tasks \ {p} : proc[q].pc \in InUpdate

\* ---------------------------------------------------------------- actions

\* Call: state := atomic.LoadUint32(&b.state)
CallStart(p) ==
    /\ p \in Callers
    /\ proc[p].pc = "idle"
    /\ hist.calls < lim.calls
    /\ proc' = [proc EXCEPT ![p] = CallEnter(proc[p], state)]
    /\ hist' = [hist EXCEPT !.calls = @ + 1,
                            !.serial = @ /\ ~(proc'[p].pc \in InUpdate
                                              /\ OthersInUpdate(p))]
    /\ UNCHANGED <<now, opt, state, hcVars, hcPc, hcOut, cancelled, lim>>

\* Call: err := fn(); go b.fail() or go b.success(); return err
CallFn(p) ==
    /\ p \in Callers
    /\ proc[p].pc = "fn"
    /\ FreeSlots # {}
    /\ \E e \in {"nil", "err"} :
         /\ proc' = [proc EXCEPT
                       ![p] = [@ EXCEPT !.pc = "returned", !.err = e,
                                        !.ret = callResult(e)],
                       ![NewSlot] = [Free EXCEPT !.pc = "send",
                                                 !.kind = spawnKind(e)]]
         /\ hist' = IF e = "err" THEN [hist EXCEPT !.invErr = @ + 1]
                                 ELSE [hist EXCEPT !.invOk = @ + 1]
    /\ UNCHANGED <<now, opt, state, hcVars, hcPc, hcOut, cancelled, lim>>

\* the caller of Call has its result
CallReturn(p) ==
    /\ p \in Callers
    /\ proc[p].pc = "returned"
    /\ proc' = [proc EXCEPT ![p] = Idle]
    /\ UNCHANGED <<now, opt, state, hcVars, hcPc, hcOut, cancelled,
                   lim, hist>>

\* b.success() / b.fail(): hc.successChan <- struct{}{} or
\* hc.failuresChan <- struct{}{}; run's select receives it and runs
\* doSuccess() or doFail() before it selects again
BgSend(b) ==
    /\ b \in BgSlots
    /\ proc[b].pc = "send"
    /\ runReceives
    /\ IF proc[b].kind = "fail"
       THEN /\ values' = doFail(values, now)
            /\ lastFailure' = now
            /\ lastSuccess' = lastSuccess
            /\ hist' = [hist EXCEPT !.sentF = @ + 1,
                                    !.firstRec = firstWrite(@, now),
                                    !.serial = @ /\ ~OthersInUpdate(b)]
       ELSE /\ values' = doSuccess(values, now)
            /\ lastSuccess' = now
            /\ lastFailure' = lastFailure
            /\ hist' = [hist EXCEPT !.sentS = @ + 1,
                                    !.firstRec = firstWrite(@, now),
                                    !.serial = @ /\ ~OthersInUpdate(b)]
    /\ proc' = [proc EXCEPT ![b].pc = "upd_load"]
    /\ UNCHANGED <<now, opt, state, hcPc, hcOut, cancelled, lim>>

\* update: state := atomic.LoadUint32(&b.state)
UpdateLoad(p) ==
    /\ proc[p].pc = "upd_load"
    /\ proc' = [proc EXCEPT ![p] = [@ EXCEPT !.pc = "sum_send", !.ust = state]]
    /\ UNCHANGED <<now, opt, state, hcVars, hcPc, hcOut, cancelled, lim, hist>>

\* Summary: hc.summaryChan <- struct{}{}; run's select receives it, runs
\* doSummary() and waits to send the result on summaryOutChan
SummarySend(p) ==
    /\ proc[p].pc = "sum_send"
    /\ runReceives
    /\ hcPc' = "reply"
    /\ hcOut' = doSummary(values, now, lastFailure, lastSuccess)
    /\ proc' = [proc EXCEPT ![p].pc = "sum_recv"]
    /\ hist' = [hist EXCEPT !.asker = p]
    /\ UNCHANGED <<now, opt, state, hcVars, cancelled, lim>>

\* Summary: return <-hc.summaryOutChan; then checkState, and update's
\* if state == newState { return state }
SummaryRecv(p) ==
    /\ proc[p].pc = "sum_recv"
    /\ hcPc = "reply"
    /\ LET r == [proc[p] EXCEPT !.target = checkState(hcOut), !.tot = hcOut.Total]
       IN proc' = IF r.ust = r.target THEN AfterUpdate(p, r, r.ust)
                  ELSE [proc EXCEPT ![p] = [r EXCEPT !.pc = "upd_cas"]]
    /\ hcPc' = runAfterSummary
    /\ hcOut' = NoSummary
    /\ hist' = [hist EXCEPT !.asker = 0]
    /\ UNCHANGED <<now, opt, state, hcVars, cancelled, lim>>

\* update: atomic.CompareAndSwapUint32(&b.state, state, newState), and the
\* non-blocking send of newState on b.changes, which a reader gets only if
\* it is waiting (reader); without one the select takes its default
UpdateCAS(p) ==
    /\ proc[p].pc = "upd_cas"
    /\ LET r == proc[p]
           changed == state = r.ust
       IN /\ state' = IF changed THEN r.target ELSE state
          /\ proc' = AfterUpdate(p, r, casResult(r, changed))
          /\ \E reader \in BOOLEAN :
               hist' = [hist EXCEPT
                          !.swaps = IF changed THEN @ + 1 ELSE @,
                          !.delivered = IF notify(changed, reader) THEN @ + 1 ELSE @,
                          !.lastChange = IF notify(changed, reader)
                                         THEN changeValue(r) ELSE @]
    /\ UNCHANGED <<now, opt, hcVars, hcPc, hcOut, cancelled, lim>>

\* HealthCounts.Success(), called on the counter directly: the handoff on
\* successChan, and run's doSuccess()
Success(p) ==
    /\ p \in Callers
    /\ proc[p].pc = "idle"
    /\ hist.calls < lim.calls
    /\ runReceives
    /\ values' = doSuccess(values, now)
    /\ lastSuccess' = now
    /\ hist' = [hist EXCEPT !.calls = @ + 1, !.sentS = @ + 1,
                            !.firstRec = firstWrite(@, now)]
    /\ UNCHANGED <<now, opt, state, lastFailure, hcPc, hcOut, cancelled, proc, lim>>

\* HealthCounts.Fail(), called on the counter directly: the handoff on
\* failuresChan, and run's doFail()
Fail(p) ==
    /\ p \in Callers
    /\ proc[p].pc = "idle"
    /\ hist.calls < lim.calls
    /\ runReceives
    /\ values' = doFail(values, now)
    /\ lastFailure' = now
    /\ hist' = [hist EXCEPT !.calls = @ + 1, !.sentF = @ + 1,
                            !.firstRec = firstWrite(@, now)]
    /\ UNCHANGED <<now, opt, state, lastSuccess, hcPc, hcOut, cancelled, proc, lim>>

\* HealthCounts.Fail() on a counter whose run is that of counters.go: the
\* handoff on failuresChan, and the doFail() of counters.go
FailCounters(p) ==
    /\ p \in Callers
    /\ proc[p].pc = "idle"
    /\ hist.calls < lim.calls
    /\ runReceives
    /\ values' = doFailCounters(values, now)
    /\ lastFailure' = now
    /\ hist' = [hist EXCEPT !.calls = @ + 1, !.sentF = @ + 1,
                            !.firstRec = firstWrite(@, now)]
    /\ UNCHANGED <<now, opt, state, lastSuccess, hcPc, hcOut, cancelled, proc, lim>>

\* HealthCounts.Summary() (Breaker.Health()), called directly: the request
\* on summaryChan, and run's doSummary()
Summary(p) ==
    /\ p \in Callers
    /\ proc[p].pc = "idle"
    /\ hist.calls < lim.calls
    /\ runReceives
    /\ hcPc' = "reply"
    /\ hcOut' = doSummary(values, now, lastFailure, lastSuccess)
    /\ proc' = [proc EXCEPT ![p].pc = "health_recv"]
    /\ hist' = [hist EXCEPT !.calls = @ + 1, !.asker = p]
    /\ UNCHANGED <<now, opt, state, hcVars, cancelled, lim>>

\* HealthCounts.Summary(): return <-hc.summaryOutChan
SummaryReturn(p) ==
    /\ p \in Callers
    /\ proc[p].pc = "health_recv"
    /\ hcPc = "reply"
    /\ hcPc' = runAfterSummary
    /\ hcOut' = NoSummary
    /\ proc' = [proc EXCEPT ![p] = Idle]
    /\ hist' = [hist EXCEPT !.asker = 0]
    /\ UNCHANGED <<now, opt, state, hcVars, cancelled, lim>>

\* run: case <-hc.ctx.Done(): return
RunDone ==
    /\ runReceives
    /\ cancelled
    /\ hcPc' = "done"
    /\ UNCHANGED <<now, opt, state, hcVars, hcOut, cancelled, proc, lim, hist>>

\* Breaker.Cancel -> HealthCounts.Cancel -> hc.cancel()
Cancel ==
    /\ ~cancelled
    /\ cancelled' = TRUE
    /\ UNCHANGED <<now, opt, state, hcVars, hcPc, hcOut, proc, lim, hist>>

\* the clock
Tick ==
    /\ now < lim.time
    /\ now' = now + 1
    /\ UNCHANGED <<opt, state, hcVars, hcPc, hcOut, cancelled, proc, lim, hist>>

\* NewBreaker(opt): the breaker in CloseState with the counter that
\* NewHealthCounts made and its goroutine (go hc.run()), or nil and the
\* error of NewHealthCounts, and then no counter and no goroutine
NewBreaker ==
    /\ hcPc = "none"
    /\ LET hc == NewHealthCounts(opt.NumberOfSecondsToStore)
       IN IF hc.ok
          THEN /\ state' = CloseState
               /\ values' = hc.values
               /\ hcPc' = "select"
          ELSE /\ state' = state
               /\ values' = <<>>
               /\ hcPc' = "nil"
    /\ UNCHANGED <<now, opt, lastFailure, lastSuccess, hcOut, cancelled,
                   proc, lim, hist>>

\* ----------------------------------------------------------- specification

OptionsSet == [ErrorsPercentage : Thresholds,
               MinimumNumberOfRequest : 1..MaxMin,
               NumberOfSecondsToStore : 1..MaxBuckets]

NoHist == [calls |-> 0, invOk |-> 0, invErr |-> 0, sentS |-> 0, sentF |-> 0,
           delivered |-> 0, firstRec |-> Zero, serial |-> TRUE,
           swaps |-> 0, lastChange |-> "none", asker |-> 0]

\* NewBreaker(o), for the options that NewHealthCounts accepts
InitWith(L, O) ==
    /\ now = 0
    /\ opt \in {o \in O : NewHealthCounts(o.NumberOfSecondsToStore).ok}
    /\ state = CloseState
    /\ values = NewHealthCounts(opt.NumberOfSecondsToStore).values
    /\ lastFailure = Zero
    /\ lastSuccess = Zero
    /\ hcPc = "select"
    /\ hcOut = NoSummary
    /\ cancelled = FALSE
    /\ proc = [p \in Tasks |-> IF p \in Callers THEN Idle ELSE Free]
    /\ lim = L
    /\ hist = NoHist

Init == InitWith([calls |-> MaxCalls, time |-> MaxTime, tps |-> Ticks], OptionsSet)

Next ==
    \/ \E p \in Callers : CallStart(p)
    \/ \E p \in Callers : CallFn(p)
    \/ \E p \in Callers : CallReturn(p)
    \/ \E b \in BgSlots : BgSend(b)
    \/ \E p \in Tasks : UpdateLoad(p)
    \/ \E p \in Tasks : SummarySend(p)
    \/ \E p \in Tasks : SummaryRecv(p)
    \/ \E p \in Tasks : UpdateCAS(p)
    \/ RunDone
    \/ Cancel
    \/ Tick

Spec == Init /\ [][Next]_vars

\* The breaker under fair scheduling.  Go runs every runnable goroutine, so
\* a step that stays enabled is taken (WF).  A goroutine blocked in a send
\* on one of the counter's unbuffered channels is paired with run's select
\* whenever run gets there; select chooses among its ready cases at random
\* and a channel's blocked senders are served first-in first-out, so a
\* sender that is ready again and again is served (SF).
Fairness ==
    /\ \A p \in Tasks : /\ WF_vars(UpdateLoad(p))
                         /\ SF_vars(SummarySend(p))
                         /\ WF_vars(SummaryRecv(p))
                         /\ WF_vars(UpdateCAS(p))
    /\ \A b \in BgSlots : SF_vars(BgSend(b))

LiveInit == InitWith([calls |-> LiveMaxCalls, time |-> LiveMaxTime, tps |-> Ticks],
                     OptionsSet)

LiveSpec == LiveInit /\ [][Next]_vars /\ Fairness

\* the counter alone, used by goroutines that call Success, Fail and Summary
HcOptionsSet == [ErrorsPercentage : {DefaultErrorsPercentage},
                 MinimumNumberOfRequest : {DefaultMinimumNumberOfRequest},
                 NumberOfSecondsToStore : 1..HcMaxBuckets]

HcInit == InitWith([calls |-> HcMaxOps, time |-> HcMaxTime, tps |-> HcTicks],
                   HcOptionsSet)

HcNext ==
    \/ \E p \in Callers : Success(p)
    \/ \E p \in Callers : Fail(p)
    \/ \E p \in Callers : Summary(p)
    \/ \E p \in Callers : SummaryReturn(p)
    \/ RunDone
    \/ Cancel
    \/ Tick

HcSpec == HcInit /\ [][HcNext]_vars

\* the counter alone, its goroutine running the code of counters.go
CountersNext ==
    \/ \E p \in Callers : Success(p)
    \/ \E p \in Callers : FailCounters(p)
    \/ \E p \in Callers : Summary(p)
    \/ \E p \in Callers : SummaryReturn(p)
    \/ Tick

CountersSpec == HcInit /\ [][CountersNext]_vars

\* the counter alone, made a few seconds before the end of a minute, with
\* every number of buckets
WrapOptionsSet == [ErrorsPercentage : {DefaultErrorsPercentage},
                   MinimumNumberOfRequest : {DefaultMinimumNumberOfRequest},
                   NumberOfSecondsToStore : 1..WrapMaxBuckets]

WrapInit ==
    /\ now = WrapStart
    /\ opt \in {o \in WrapOptionsSet : NewHealthCounts(o.NumberOfSecondsToStore).ok}
    /\ state = CloseState
    /\ values = NewHealthCounts(opt.NumberOfSecondsToStore).values
    /\ lastFailure = Zero
    /\ lastSuccess = Zero
    /\ hcPc = "select"
    /\ hcOut = NoSummary
    /\ cancelled = FALSE
    /\ proc = [p \in Tasks |-> IF p \in Callers THEN Idle ELSE Free]
    /\ lim = [calls |-> WrapMaxOps, time |-> WrapMaxTime, tps |-> Ticks]
    /\ hist = NoHist

WrapNext ==
    \/ \E p \in Callers : Success(p)
    \/ \E p \in Callers : Fail(p)
    \/ Tick

WrapSpec == WrapInit /\ [][WrapNext]_vars

\* construction: NewBreaker with any NumberOfSecondsToStore of -1..62, and
\* Health() on what it returned
CtorOptionsSet == [ErrorsPercentage : Thresholds,
                   MinimumNumberOfRequest : 1..MaxMin,
                   NumberOfSecondsToStore : -1..CtorMaxSeconds]

CtorInit ==
    /\ now = 0
    /\ opt \in CtorOptionsSet
    /\ state = CloseState
    /\ values = <<>>
    /\ lastFailure = Zero
    /\ lastSuccess = Zero
    /\ hcPc = "none"
    /\ hcOut = NoSummary
    /\ cancelled = FALSE
    /\ proc = [p \in Tasks |-> IF p \in Callers THEN Idle ELSE Free]
    /\ lim = [calls |-> CtorMaxOps, time |-> 0, tps |-> Ticks]
    /\ hist = NoHist

CtorNext ==
    \/ NewBreaker
    \/ \E p \in Callers : Summary(p)
    \/ \E p \in Callers : SummaryReturn(p)

CtorSpec == CtorInit /\ [][CtorNext]_vars

\* ------------------------------------------------------------------ claims

\* the time of the last write to the counter
LastRecord == IF lastFailure > lastSuccess THEN lastFailure ELSE lastSuccess

\* more than the window has passed since the last recorded outcome
AgedOut == ~IsZero(LastRecord) /\ now - LastRecord > window

\* every outcome recorded so far was recorded at most one window ago
OneWindow == IsZero(hist.firstRec) \/ now - hist.firstRec <= window

\* no Call and no update is in progress, and every goroutine has ended
Quiescent ==
    /\ \A p \in Callers : proc[p].pc = "idle"
    /\ \A b \in BgSlots : proc[b].pc = "free"
    /\ hcPc = "select"

\* C1: a Call that loaded OpenState and whose summary gives the Open
\* condition (checkState yields OpenState) does not go on to fn: it returns
\* ErrBreakerOpen.
C1_OpenNeverInvokes ==
    \A p \in Callers :
        (proc[p].st = OpenState /\ proc[p].target = OpenState
            /\ proc[p].pc \in {"fn", "returned"})
        => (proc[p].pc = "returned" /\ proc[p].ret = "ErrBreakerOpen")

\* C6: a Call returns ErrBreakerOpen only if it loaded OpenState and the
\* target it recomputed from the summary in that Call is OpenState.
C6_RejectOnlyIfStillOpen ==
    \A p \in Callers :
        (proc[p].pc = "returned" /\ proc[p].ret = "ErrBreakerOpen")
        => (proc[p].st = OpenState /\ proc[p].target = OpenState)

\* C8: once more than the window has passed since the last recorded outcome
\* the summary's total is 0, and a Call whose re-evaluation sees that total
\* invokes fn instead of returning ErrBreakerOpen.
C8_RecoversByAging ==
    /\ AgedOut => doSummary(values, now, lastFailure, lastSuccess).Total = 0
    /\ \A p \in Callers :
          (proc[p].pc = "returned" /\ proc[p].st = OpenState /\ proc[p].tot = 0)
          => proc[p].ret # "ErrBreakerOpen"

\* C2 as claimed: whenever the in-window total is below
\* MinimumNumberOfRequest, the state is CloseState.
C2_ClosedBelowMinimum ==
    doSummary(values, now, lastFailure, lastSuccess).Total < opt.MinimumNumberOfRequest
    => state = CloseState

\* C2 as amended: an update() that received a summary whose total is below
\* MinimumNumberOfRequest has CloseState as its target, whatever the error
\* rate, and the state goes from CloseState to OpenState only in the
\* compare-and-swap of an update() whose summary had at least
\* MinimumNumberOfRequest outcomes.
C2_TargetClosedBelowMinimum ==
    /\ [](\A p \in Tasks :
            (proc[p].pc \in {"upd_cas", "fn", "returned"}
                /\ proc[p].tot < opt.MinimumNumberOfRequest)
            => proc[p].target = CloseState)
    /\ [][(state = CloseState /\ state' = OpenState)
          => \E p \in Tasks : /\ proc[p].pc = "upd_cas"
                              /\ proc'[p] # proc[p]
                              /\ proc[p].target = OpenState
                              /\ proc[p].tot >= opt.MinimumNumberOfRequest]_vars

\* failures only, fewer than MinimumNumberOfRequest, are being reported to
\* an update() and the breaker is closed
C2_Witness ==
    /\ hcPc = "reply"
    /\ hcOut.Total >= 1
    /\ hcOut.Total < opt.MinimumNumberOfRequest
    /\ hcOut.Failures = hcOut.Total
    /\ hcOut.ErrorPercentage >= opt.ErrorsPercentage
    /\ state = CloseState

\* C3: after N outcomes with F failures, recorded within one window by
\* updates that ran one after another, the state is OpenState exactly when
\* N >= MinimumNumberOfRequest and 100 * F / N >= ErrorsPercentage.
C3_OpenExactlyAtThreshold ==
    (Quiescent /\ hist.serial /\ OneWindow /\ hist.sentS + hist.sentF > 0)
    => LET n == hist.sentS + hist.sentF
           f == hist.sentF
       IN (state = OpenState)
          <=> (n >= opt.MinimumNumberOfRequest /\ 100 * f >= opt.ErrorsPercentage * n)

\* C4: every summary has Total = Success + Failures, ErrorPercentage in
\* 0..100, 0 when Total is 0, and ErrorPercentage * Total = 100 * Failures.
C4_ExactErrorPercentage ==
    hcPc = "reply"
    => /\ hcOut.Total = hcOut.Success + hcOut.Failures
       /\ hcOut.ErrorPercentage >= 0
       /\ hcOut.ErrorPercentage <= 100
       /\ hcOut.Total = 0 => hcOut.ErrorPercentage = 0
       /\ hcOut.ErrorPercentage * hcOut.Total = 100 * hcOut.Failures

\* C7: a Call that returns ErrBreakerOpen never ran fn, and no step of a
\* Call other than its fn step changes a bucket, lastSuccess or lastFailure
\* or starts a goroutine; the goroutines started are as many as the
\* invocations of fn.
C7_RejectedNotRecorded ==
    /\ [](hist.sentS + hist.sentF + Cardinality({b \in BgSlots : proc[b].pc = "send"})
            = hist.invOk + hist.invErr)
    /\ [][\A p \in Callers :
            (proc'[p] # proc[p] /\ proc[p].pc # "fn")
            => /\ UNCHANGED hcVars
               /\ \A b \in BgSlots : proc'[b] = proc[b]
               /\ proc'[p].ret = "ErrBreakerOpen"
                    => proc[p].pc \in {"sum_recv", "upd_cas"}]_vars

\* a Call has returned ErrBreakerOpen while the counter holds an outcome
C7_Witness ==
    \E p \in Callers :
        /\ proc[p].pc = "returned"
        /\ proc[p].ret = "ErrBreakerOpen"
        /\ doSummary(values, now, lastFailure, lastSuccess).Total >= 1

\* C10 as claimed: no Call is ever sending a request to the counter's
\* goroutine or waiting for its answer.
C10_CallNeverAsksCounter ==
    \A p \in Callers : proc[p].pc \notin {"sum_send", "sum_recv"}

\* C10 as amended: a Call asks the counter's goroutine for a summary, and
\* waits for it, only when the state it loaded is OpenState; a Call that
\* loaded CloseState goes to fn without any request.
C10_AsksOnlyWhenOpen ==
    \A p \in Callers :
        /\ proc[p].pc \in InUpdate => proc[p].st = OpenState
        /\ (proc[p].pc \in {"fn", "returned"} /\ proc[p].st = CloseState)
              => (proc[p].tot = 0 /\ proc[p].target = CloseState)

\* a Call that loaded OpenState waits to hand its request to a counter
\* whose goroutine has exited
C10_Witness ==
    \E p \in Callers :
        proc[p].pc = "sum_send" /\ proc[p].st = OpenState /\ hcPc = "done"

\* C5: a summary computed while every outcome handed to the counter is at
\* most one window old reports exactly the Success() calls as Success, the
\* Fail() calls as Failures, and their sum as Total.
C5_NoLostUpdates ==
    (hcPc = "reply" /\ OneWindow)
    => /\ hcOut.Success = hist.sentS
       /\ hcOut.Failures = hist.sentF
       /\ hcOut.Total = hist.sentS + hist.sentF

\* a summary of successes and failures that lie in two buckets, all of them
\* within one window
C5_Witness ==
    /\ hcPc = "reply"
    /\ OneWindow
    /\ hist.sentS >= 1
    /\ hist.sentF >= 2
    /\ Cardinality({i \in DOMAIN values : values[i].failures + values[i].success > 0}) >= 2
    /\ hcOut.Total = hist.sentS + hist.sentF

\* C9: a Call that ran fn returns fn's error; the goroutines it has started
\* and the outcomes handed to the counter are, of each kind, as many as the
\* invocations of fn with that result (one per invocation, failure for an
\* error and success for nil); and unless the counter is shut down every
\* such goroutine hands over its outcome and ends after its update().
C9_OneOutcomePerCall ==
    /\ [](\A p \in Callers :
            (proc[p].pc = "returned" /\ proc[p].ret # "ErrBreakerOpen")
            => proc[p].ret = proc[p].err)
    /\ [](/\ hist.sentF + Cardinality({b \in BgSlots : proc[b].pc = "send"
                                                       /\ proc[b].kind = "fail"})
               = hist.invErr
          /\ hist.sentS + Cardinality({b \in BgSlots : proc[b].pc = "send"
                                                       /\ proc[b].kind = "success"})
               = hist.invOk
          /\ doSummary(values, now, lastFailure, lastSuccess).Failures <= hist.invErr
          /\ doSummary(values, now, lastFailure, lastSuccess).Success <= hist.invOk)
    /\ \A b \in BgSlots :
          (proc[b].pc = "send") ~> (proc[b].pc = "free" \/ cancelled)

\* fn has returned an error once and nil once, both outcomes are in the
\* counter and both goroutines have ended after their update()
C9_Witness ==
    /\ hist.invErr = 1
    /\ hist.invOk = 1
    /\ doSummary(values, now, lastFailure, lastSuccess).Failures = 1
    /\ doSummary(values, now, lastFailure, lastSuccess).Success = 1
    /\ \A b \in BgSlots : proc[b].pc = "free"
    /\ ~cancelled

\* C11: a value is read from b.changes only in the step of an update()
\* whose compare-and-swap succeeded, one value per such step, and the value
\* is the state that swap installed; an update() at its compare-and-swap can
\* always finish without anyone reading b.changes; and the values delivered
\* are never more than the successful swaps.
C11_NotifyOnlyByWinner ==
    /\ [](hist.delivered <= hist.swaps)
    /\ [](\A p \in Tasks :
            proc[p].pc = "upd_cas"
            => ENABLED (UpdateCAS(p) /\ hist'.delivered = hist.delivered))
    /\ [][hist'.delivered # hist.delivered
          => /\ hist'.delivered = hist.delivered + 1
             /\ hist'.swaps = hist.swaps + 1
             /\ state' # state
             /\ hist'.lastChange = state'
             /\ \E p \in Tasks : /\ proc[p].pc = "upd_cas"
                                 /\ proc'[p] # proc[p]
                                 /\ proc[p].ust = state
                                 /\ proc[p].target = state']_vars

\* the state was swapped twice by updates that raced, a reader got one of
\* the two values, and another update() has lost its compare-and-swap
C11_Witness ==
    /\ hist.swaps = 2
    /\ hist.delivered = 1
    /\ hist.lastChange = OpenState
    /\ ~hist.serial
    /\ \E p \in Callers : /\ proc[p].pc = "returned"
                           /\ proc[p].ust # proc[p].target
                           /\ proc[p].ret = "ErrBreakerOpen"
                           /\ proc[p].target = CloseState

\* C12: NewBreaker with NumberOfSecondsToStore outside 1..60 returns nil:
\* there is no counter and no goroutine of it; with a value in 1..60 it
\* returns a breaker in CloseState whose counter has exactly that many
\* buckets, all empty, and a goroutine that serves requests.
C12_ConstructionValidates ==
    hcPc # "none"
    => LET n == opt.NumberOfSecondsToStore
       IN IF n >= 1 /\ n <= 60
          THEN /\ hcPc \in {"select", "reply"}
               /\ state = CloseState
               /\ DOMAIN values = 0..(n - 1)
               /\ \A i \in DOMAIN values : values[i] = EmptyBucket
          ELSE /\ hcPc = "nil"
               /\ values = <<>>
               /\ hist.calls = 0

\* the goroutine of a counter made with 60 buckets is answering Health()
C12_Witness ==
    /\ opt.NumberOfSecondsToStore = 60
    /\ hcPc = "reply"
    /\ Cardinality(DOMAIN values) = 60
    /\ hcOut.Total = 0

\* C13: every outcome counted in a summary was recorded at most the window
\* and one second before it.  In particular, when a summary computed now
\* counts every outcome recorded so far, the first of them is among the
\* counted, so it was recorded at most window + 1 second ago.
C13_CountedOutcomesAreRecent ==
    LET hs == doSummary(values, now, lastFailure, lastSuccess)
    IN (hs.Total > 0 /\ hs.Total = hist.sentS + hist.sentF)
       => now - hist.firstRec <= window + TicksPerSecond

\* C14: an update() whose compare-and-swap fails, because b.state is no
\* longer the state it loaded, returns the value held by b.state at that
\* failed swap; so the Call that ran it goes on as after an update() that
\* returned that value: ErrBreakerOpen for OpenState, fn for CloseState.
C14_LoserSeesWinnersState ==
    [][\A p \in Callers :
          (proc[p].pc = "upd_cas" /\ proc'[p] # proc[p] /\ state # proc[p].ust)
          => /\ state = OpenState => proc'[p].ret = "ErrBreakerOpen"
             /\ state = CloseState => proc'[p].pc = "fn"]_vars

\* C15: a Fail() adds one to the failure count of the bucket of this second
\* and leaves its success count and every other bucket as they are, a
\* Success() does the same with the success count (the bucket being one
\* that bucket() does not reset); and a summary of outcomes recorded within
\* one window has the number of Fail() calls as Failures and the number of
\* Success() calls as Success.
C15_RecordingCountsItsOwnKind ==
    /\ [](( hcPc = "reply" /\ OneWindow)
            => (hcOut.Failures = hist.sentF /\ hcOut.Success = hist.sentS))
    /\ [][LET i == bucketIndex(now)
              fresh == IsZero(values[i].lastWrite) \/ now - values[i].lastWrite <= window
          IN /\ (hist'.sentF = hist.sentF + 1 /\ fresh)
                  => /\ values'[i].failures = values[i].failures + 1
                     /\ values'[i].success = values[i].success
                     /\ \A j \in DOMAIN values \ {i} : values'[j] = values[j]
             /\ (hist'.sentS = hist.sentS + 1 /\ fresh)
                  => /\ values'[i].success = values[i].success + 1
                     /\ values'[i].failures = values[i].failures
                     /\ \A j \in DOMAIN values \ {i} : values'[j] = values[j]]_vars

\* C16: from the cancel signal on the counter is inert: no bucket count or
\* timestamp, lastSuccess or lastFailure changes, and run at its select
\* takes no further Success, Fail or Summary message (it stays there or
\* returns).
C16_InertAfterCancel ==
    [][cancelled
       => /\ UNCHANGED hcVars
          /\ hcPc = "select" => hcPc' \in {"select", "done"}]_vars

\* C17: while the counter is not cancelled, a goroutine that waits at one
\* of its channels can take a step with run (no deadlock); and under fair
\* scheduling every Success() and Fail() call returns after its handoff and
\* every Summary() call returns with its answer, unless Cancel() is called.
C17_ProgressWithoutShutdown ==
    /\ []((~cancelled /\ \E p \in Tasks : proc[p].pc \in {"send", "sum_send", "sum_recv"})
            => ENABLED (\E p \in Tasks : BgSend(p) \/ SummarySend(p) \/ SummaryRecv(p)))
    /\ [](~cancelled => hcPc \in {"select", "reply"})
    /\ \A p \in Tasks :
          /\ (proc[p].pc = "send") ~> (proc[p].pc # "send" \/ cancelled)
          /\ (proc[p].pc = "sum_send")
                ~> (proc[p].pc \notin {"sum_send", "sum_recv"} \/ cancelled)

\* run is answering the Summary() of one goroutine while another waits to
\* hand over a failure, and the counter is not cancelled
C17_Witness ==
    /\ ~cancelled
    /\ hcPc = "reply"
    /\ \E p, q \in Tasks : /\ proc[p].pc = "sum_recv"
                            /\ proc[q].pc = "send"
                            /\ proc[q].kind = "fail"

\* the wall-clock second of time t, counted from the start of the clock
AbsSecond(t) == t \div TicksPerSecond

\* C18: the bucket index recurs every `buckets` seconds and not sooner: a
\* write goes to a bucket written before only if the seconds of the two
\* writes differ by a multiple of the number of buckets, and the last
\* writes of two different buckets are in seconds that do not differ by a
\* multiple of it (a write `buckets` seconds after another selects the
\* same bucket).
C18_IndexIsCyclic ==
    /\ [](\A i, j \in DOMAIN values :
            (i # j /\ ~IsZero(values[i].lastWrite) /\ ~IsZero(values[j].lastWrite))
            => (AbsSecond(values[i].lastWrite) - AbsSecond(values[j].lastWrite))
                  % buckets # 0)
    /\ [][\A i \in DOMAIN values :
            (values'[i] # values[i] /\ ~IsZero(values[i].lastWrite))
            => (AbsSecond(now) - AbsSecond(values[i].lastWrite)) % buckets = 0]_vars

\* no bucket has left the window since the last recorded outcome
NoAging == InWindow(values, now) = InWindow(values, LastRecord)

\* C19: when no Call and no goroutine of success(), fail() or update() is
\* in progress and no bucket has aged since the last recording, b.state is
\* the target that checkState computes from the current summary.
C19_QuiescentStateMatchesCounter ==
    (Quiescent /\ NoAging)
    => state = checkState(doSummary(values, now, lastFailure, lastSuccess))

\* the goroutines waiting in Summary() for the answer on summaryOutChan
AwaitingSummary == {p \in Tasks : proc[p].pc \in {"sum_recv", "health_recv"}}

\* C20: at most one goroutine waits on summaryOutChan at any time; it is the
\* one whose request run is answering; and the goroutine that receives a
\* summary is the one at whose request run computed it (an update() goes on
\* with the total of that summary, unless its goroutine ends there).
C20_SummaryAnswersItsRequest ==
    /\ [](Cardinality(AwaitingSummary) <= 1)
    /\ [](IF hcPc = "reply" THEN AwaitingSummary = {hist.asker}
                            ELSE AwaitingSummary = {} /\ hist.asker = 0)
    /\ [][\A p \in AwaitingSummary :
            proc'[p] # proc[p]
            => /\ hist.asker = p
               /\ hcPc = "reply"
               /\ proc[p].pc = "sum_recv"
                    => proc'[p].pc = "free" \/ proc'[p].tot = hcOut.Total]_vars

\* run is answering the Summary() of one goroutine while another goroutine
\* waits to send its request, both inside update()
C20_Witness ==
    /\ hcPc = "reply"
    /\ \E p, q \in Tasks : /\ hist.asker = p
                            /\ proc[p].pc = "sum_recv"
                            /\ proc[q].pc = "sum_send"
                            /\ hcOut.Total >= 1

====
